---- MODULE Spec2Model ----
(***************************************************************************)
(* Super Planner Books worker (src/worker.js): users, wallets, pages,      *)
(* purchases and coin transactions behind the /api/* routes.               *)
(*                                                                         *)
(* A handler is a sequence of `await env.DB...` statements, and the        *)
(* statements of concurrent requests interleave.  A request occupies a     *)
(* slot between two statements whenever the later one uses a value the     *)
(* earlier one read that another request can change (the slug a PUT falls  *)
(* back to, the price and the absence of a purchase row a purchase relies  *)
(* on).  Reads of facts that never change once true (a users row exists, a *)
(* pages row exists, its author_id, status = 'published') are taken        *)
(* together with the statement that follows them: rows of users and pages  *)
(* are never deleted and no statement writes author_id or resets status.   *)
(*                                                                         *)
(* User ids and page ids are random UUIDs in the code; here the k-th row   *)
(* created gets id k.  Token k stands for "Bearer <id of user k>", token 0 *)
(* for a request without an Authorization header.                          *)
(* In coin_transactions, from 0 and page 0 stand for null.                *)
(* Not modelled: display_name, cover_image_url, every timestamp column,    *)
(* /api/ai and /api/img (they write no table).                             *)
(*                                                                         *)
(* The song generator and its sequence encoder have no source file here;   *)
(* they are modelled from the description of the repository (SpecSong).    *)
(* The worker's specifications leave the generator at rest, and SpecSong   *)
(* leaves the database empty.                                              *)
(*                                                                         *)
(* The undo stack of the planner (src/src/App.js, SpecUndo) and            *)
(* getChartData of the stock chart (src/src/api.js, SpecChart) are         *)
(* programs of their own; each specification moves the variables of its    *)
(* program and leaves the others as they start.                            *)
(***************************************************************************)
EXTENDS Integers, Sequences, FiniteSets, Bags, TLC

\* ------------------------------------------------------------------ bounds
MaxUsers == 2
MaxPages == 1
MaxSlots == 2
MaxImages == 1

\* ------------------------------------------------------- program constants
InitialGrant == 1000

\* ------------------------------------------------------------- input sets
\* request bodies of POST /api/pages and PUT /api/pages/:id; NoBody is a body
\* that is not JSON
NoBody == [json |-> FALSE, title |-> "", slug |-> "", content |-> "", price_coins |-> 0]
Bodies == {NoBody,
           [json |-> TRUE, title |-> "t", slug |-> "a", content |-> "c", price_coins |-> 600],
           [json |-> TRUE, title |-> "", slug |-> "b", content |-> "", price_coins |-> 400],
           [json |-> TRUE, title |-> "t", slug |-> "", content |-> "c", price_coins |-> -5]}
Slugs == {"a", "b"}
\* what POST /api/upload is sent
Forms == {"json", "nofile", "text", "big", "image"}

\* params, gen, rng: the parameters of a song, the generation calls on them and
\* the RNG state of each call
\* watch: the routes whose responses resp records, and whether those to tokens
\* of users, those to other tokens, or both (an observer's choice, fixed by the
\* initial state; the routes themselves all run whatever it is)
VARIABLES users, wallets, pages, purchases, txs, images, slots, resp, watch,
          params, gen, rng,
          undoStack, serial, undone, signedIn, toast,
          response, chart, called

apivars == <<users, wallets, pages, purchases, txs, images, slots, resp, watch>>
songvars == <<params, gen, rng>>
undovars == <<undoStack, serial, undone, signedIn, toast>>
chartvars == <<response, chart, called>>
vars == <<apivars, songvars, undovars, chartvars>>
dbvars == <<users, wallets, pages, purchases, txs, images>>

Slots == 1..MaxSlots
Tokens == 0..MaxUsers
PageIds == 0..MaxPages

\* ---------------------------------------------------------------- helpers
Max(a, b) == IF a >= b THEN a ELSE b

\* Math.max(0, Number(x || 0) | 0); the prices drawn are integers of fewer than
\* 32 bits, which Number() and | 0 leave as they are
PriceOf(x) == Max(0, x)

\* (body.title || "").trim() || <the default title>
TitleOf(x) == IF x = "" THEN "untitled" ELSE x

\* a request slot: the handler's locals between two awaits
Idle == [kind |-> "idle", tok |-> 0, page |-> 0, pc |-> "idle", slug |-> "", price |-> 0]

\* the request a response answers
Req(kind, tok, page) == [kind |-> kind, tok |-> tok, page |-> page, slug |-> ""]

ReqOf(s) == Req(slots[s].kind, slots[s].tok, slots[s].page)

\* the last response recorded; seq alternates, so that two equal responses in a
\* row are two responses
NoResp == [kind |-> "none", tok |-> 0, page |-> 0, slug |-> "", status |-> 0, tag |-> "",
           rows |-> {}, seq |-> 0]

Watched(r) == r.kind \in watch.kinds /\ (r.tok \in users) \in watch.users

\* json(data): status 200
json(r, tag, rows) ==
    resp' = IF Watched(r)
              THEN [kind |-> r.kind, tok |-> r.tok, page |-> r.page, slug |-> r.slug,
                    status |-> 200, tag |-> tag, rows |-> rows, seq |-> 1 - resp.seq]
              ELSE NoResp

\* err(message, status)
err(r, tag, status) ==
    resp' = IF Watched(r)
              THEN [kind |-> r.kind, tok |-> r.tok, page |-> r.page, slug |-> r.slug,
                    status |-> status, tag |-> tag, rows |-> {}, seq |-> 1 - resp.seq]
              ELSE NoResp

\* a requireUser that takes any token for a user
requireUserAnyToken(tok) == tok # 0

\* requireUser: SELECT id FROM users WHERE id=<token>
requireUser(tok) == tok # 0 /\ tok \in users

PageExists(id) == id \in 1..Len(pages)

\* the UNIQUE constraint on pages.slug
SlugTaken(slug, except) == \E q \in 1..Len(pages) : q # except /\ pages[q].slug = slug

\* a purchase check that never finds a row
HasPurchaseNever(u, p) == FALSE

\* SELECT 1 FROM purchases WHERE user_id=? AND page_id=?
HasPurchase(u, p) == \E row \in BagToSet(purchases) : row.user = u /\ row.page = p

\* a query that forgets the status
PublishedOrDraft == 1..Len(pages)

\* WHERE p.status='published'
Published == {p \in 1..Len(pages) : pages[p].status = "published"}

\* a new request takes the first free slot (slots are interchangeable)
FreeSlot(s) == slots[s].pc = "idle" /\ \A q \in 1..(s - 1) : slots[q].pc # "idle"

\* =========================================================================
\* The song generator and the sequence encoder (sections 3 and 4 of the description;
\* the repository holds no source of them).
\* Two independent generation calls (Runs) work on the same parameters, each
\* with its own RNG state, one token of the lyrics per step; a finished
\* timeline is then encoded.  Time is counted in sub-beats (sixteenth notes),
\* so that seconds = subBeats * 60 / (tempoBPM * SubPerBeat) and
\* ticks = round(seconds * tempoBPM * TicksPerQuarter / 60) is exact.
\* The tempo is 120, the key C major.  Lyrics are a sequence of blocks, a block
\* a sequence of lines, a line its number of tokens.  Not modelled: chords,
\* the velocity of a note, the text of a token, the style.
\* =========================================================================
Runs == {1, 2}

\* the width of the RNG state (32 bits in the description)
RngModulus == 64
TicksPerQuarter == 480
SubPerBeat == 4
BreathGap == 1
SectionGap == 4
RangeLow == 60
RangeHigh == 72

Lyrics == {<< >>, << <<2>> >>, << <<3, 2>>, <<0>> >>}
Structures == {<<"A">>, <<"A", "B">>}
Seeds == {0, 1, 5}
Complexities == {0, 1}
BeatsPerBar == {3, 4}

ParamSets == [lyrics : Lyrics, structure : Structures, seed : Seeds,
              complexity : Complexities, beatsPerBar : BeatsPerBar]

\* 4.2: a zero seed is coerced to 1
SeedState(seed) == IF seed % RngModulus = 0 THEN 1 ELSE seed % RngModulus

\* 4.2: the fixed recurrence of the RNG state
RngStep(x) == (x * 13 + 7) % RngModulus

\* 4.2: next() is the state as a fraction of the modulus, in [0,1); of n equally
\* likely choices it picks the one numbered floor(next() * n)
Choice(x, n) == (x * n) \div RngModulus

\* as RngOwner, with one RNG state for every run
RngOwnerShared(r) == 1

\* the RNG state a run draws from: its own
RngOwner(r) == r

\* 4.1: empty text yields one block of one line; an empty line one placeholder token
Tokenize(lyrics) == IF lyrics = << >> THEN << <<1>> >> ELSE lyrics

TokensOf(line) == IF line = 0 THEN 1 ELSE line

\* 4.7: label A is the first block, B the second if there is one, else the first
BlockFor(label, blocks) == IF label = "B" /\ Len(blocks) >= 2 THEN 2 ELSE 1

\* 4.3: C major, and the nearest scale member (the lower one on a tie)
ScaleMembers == {0, 2, 4, 5, 7, 9, 11}

Abs(x) == IF x < 0 THEN -x ELSE x

nearestMember(pitch) ==
    LET cands == {q \in (pitch - 12)..(pitch + 12) : q % 12 \in ScaleMembers}
        best == CHOOSE q \in cands : \A o \in cands :
                    Abs(q - pitch) < Abs(o - pitch) \/ (Abs(q - pitch) = Abs(o - pitch) /\ q <= o)
    IN best

\* 4.5: fold into the vocal range by octaves
RECURSIVE Fold(_)
Fold(pitch) == IF pitch < RangeLow THEN Fold(pitch + 12)
               ELSE IF pitch > RangeHigh THEN Fold(pitch - 12)
               ELSE pitch

\* 4.4: the duration of a step, in sub-beats, from one draw
DurationOf(draw, complexity) ==
    IF complexity = 0 THEN <<4, 4, 4, 2>>[Choice(draw, 4) + 1]
    ELSE <<4, 2, 2, 1>>[Choice(draw, 4) + 1]

\* 4.4: a rest, more likely with more complexity
IsRest(draw, complexity) == complexity = 1 /\ Choice(draw, 4) = 0

\* 4.5: an ornament needs complexity above the threshold and a host long enough
\* to leave a quarter of its duration
HasOrnament(draw, complexity, dur) == complexity = 1 /\ Choice(draw, 2) = 1 /\ dur >= 4

\* 4.5: the signed interval of the walk, small steps favoured
IntervalOf(draw, complexity) ==
    IF complexity = 0 THEN <<-2, -1, 1, 2>>[Choice(draw, 4) + 1]
    ELSE <<-7, -2, 2, 5>>[Choice(draw, 4) + 1]

\* as NotesOf, with the ornament appended after its host
NotesOfHostFirst(cursor, dur, pitch, lyric, ornament) ==
    IF ornament
      THEN << [start |-> cursor + dur \div 4, dur |-> dur - dur \div 4, pitch |-> pitch,
               lyric |-> lyric, orn |-> FALSE],
              [start |-> cursor, dur |-> dur \div 4, pitch |-> Fold(nearestMember(pitch + 4)),
               lyric |-> 0, orn |-> TRUE] >>
      ELSE << [start |-> cursor, dur |-> dur, pitch |-> pitch, lyric |-> lyric, orn |-> FALSE] >>

\* the notes one token adds at time cursor: the host, after its ornament if any
NotesOf(cursor, dur, pitch, lyric, ornament) ==
    IF ornament
      THEN << [start |-> cursor, dur |-> dur \div 4, pitch |-> Fold(nearestMember(pitch + 4)),
               lyric |-> 0, orn |-> TRUE],
              [start |-> cursor + dur \div 4, dur |-> dur - dur \div 4, pitch |-> pitch,
               lyric |-> lyric, orn |-> FALSE] >>
      ELSE << [start |-> cursor, dur |-> dur, pitch |-> pitch, lyric |-> lyric, orn |-> FALSE] >>

\* 4.7: the bars a section takes, at least one
BarsOf(subBeats, beatsPerBar) ==
    Max(1, (subBeats + beatsPerBar * SubPerBeat - 1) \div (beatsPerBar * SubPerBeat))

\* as StartBarOf, with every section taken to be one bar long
StartBarOfCount(sections) == Len(sections)

\* 4.7: the bar a section starts at: the bar after the section before it
StartBarOf(sections) ==
    IF sections = << >> THEN 0
    ELSE sections[Len(sections)].startBar + sections[Len(sections)].barCount

\* 4.8: ticks of a time in sub-beats
TickOf(subBeats) == (subBeats * TicksPerQuarter) \div SubPerBeat

\* as Before, with the note-on first at one tick
BeforeOnFirst(a, b) == a.tick < b.tick \/ (a.tick = b.tick /\ a.type = "on" /\ b.type = "off")

\* 4.8: at one tick a note-off goes before a note-on
Before(a, b) == a.tick < b.tick \/ (a.tick = b.tick /\ a.type = "off" /\ b.type = "on")

\* the note-on and note-off of every audible note, a duration of less than one
\* tick being clamped to one
RECURSIVE EventsOf(_)
EventsOf(notes) ==
    IF notes = << >> THEN << >>
    ELSE LET n == Head(notes) IN
         << [tick |-> TickOf(n.start), type |-> "on", pitch |-> n.pitch],
            [tick |-> TickOf(n.start) + Max(1, TickOf(n.dur)), type |-> "off", pitch |-> n.pitch] >>
         \o EventsOf(Tail(notes))

\* a stable insertion sort by Before
RECURSIVE Insert(_, _)
Insert(e, sorted) ==
    IF sorted = << >> THEN << e >>
    ELSE IF Before(e, Head(sorted)) THEN << e >> \o sorted
    ELSE << Head(sorted) >> \o Insert(e, Tail(sorted))

RECURSIVE SortEvents(_)
SortEvents(events) ==
    IF events = << >> THEN << >>
    ELSE Insert(events[Len(events)], SortEvents(SubSeq(events, 1, Len(events) - 1)))

\* every event with its delta to the event before it
WithDeltas(events) ==
    [i \in 1..Len(events) |->
        [tick |-> events[i].tick, type |-> events[i].type, pitch |-> events[i].pitch,
         delta |-> events[i].tick - (IF i = 1 THEN 0 ELSE events[i - 1].tick)]]

\* 4.8: a variable-length quantity, 7 bits a byte, most significant group first,
\* the high bit set on all but the last byte
RECURSIVE VlqHigh(_)
VlqHigh(n) == IF n = 0 THEN << >> ELSE VlqHigh(n \div 128) \o << 128 + (n % 128) >>

Vlq(n) == VlqHigh(n \div 128) \o << n % 128 >>

RECURSIVE EventBytes(_)
EventBytes(events) ==
    IF events = << >> THEN << >>
    ELSE LET e == Head(events) IN
         Vlq(e.delta)
         \o (IF e.type = "on" THEN << 144, e.pitch, 100 >> ELSE << 128, e.pitch, 0 >>)
         \o EventBytes(Tail(events))

\* 4.8: the header chunk, then the one track chunk with its length
FileBytes(events, beatsPerBar) ==
    LET track == << 0, 255, 81, 3, 7, 161, 32 >>
                 \o << 0, 255, 88, 4, beatsPerBar, 2, 24, 8 >>
                 \o << 0, 192, 0 >>
                 \o EventBytes(events)
                 \o << 0, 255, 47, 0 >>
    IN << 77, 84, 104, 100, 0, 0, 0, 6, 0, 0, 0, 1,
          TicksPerQuarter \div 256, TicksPerQuarter % 256 >>
       \o << 77, 84, 114, 107, 0, 0, Len(track) \div 256, Len(track) % 256 >>
       \o track

\* a generation call: where it is in the lyrics, its time cursor, its timeline
IdleGen == [pc |-> "idle", sec |-> 1, line |-> 1, tok |-> 1, cursor |-> 0, secStart |-> 0,
            prev |-> 0, notes |-> << >>, sections |-> << >>, events |-> << >>,
            bytes |-> << >>]

NoParams == [lyrics |-> << >>, structure |-> <<"A">>, seed |-> 1, complexity |-> 0,
             beatsPerBar |-> 4]

\* the generator at rest, for the specifications of the worker
SongIdle ==
    /\ params = NoParams
    /\ gen = [r \in Runs |-> IdleGen]
    /\ rng = [r \in Runs |-> 1]


\* =========================================================================
\* The planner's undo stack (src/src/App.js).  A handler awaits its Firestore
\* write and then calls pushUndo; undoStack is read and written only inside
\* pushUndo and the first statement of undo, both synchronous, so a step here
\* is the continuation of a handler after its await.  An entry of the stack is
\* a closure; it is named by the serial number of the push that made it.
\* Not modelled: the documents in Firestore and what a closure does to them.
\* =========================================================================
MaxPushes == 27
MaxUndos == 2

UndoLimit == 25

\* as pushUndo, without the shift
pushUndoNoShift(stack, action) == Append(stack, action)

\* pushUndo: push, then drop the oldest entry if there are more than 25
pushUndo(stack, action) ==
    LET pushed == Append(stack, action)
    IN IF Len(pushed) > UndoLimit THEN Tail(pushed) ELSE pushed

\* the planner at rest, for the other specifications
UndoIdle ==
    /\ undoStack = << >>
    /\ serial = 0
    /\ undone = 0
    /\ signedIn = FALSE
    /\ toast = "none"

\* =========================================================================
\* getChartData of the stock chart (src/src/api.js): one call on one response
\* of GET /api/chart.  A JSON value is a number or null; reading an array past
\* its end gives undefined.
\* =========================================================================
MaxCandles == 3
MaxTime == 3

Num(n) == [type |-> "number", n |-> n]
Null == [type |-> "null", n |-> 0]
Undefined == [type |-> "undefined", n |-> 0]

\* arr[index]
At(arr, index) == IF index \in DOMAIN arr THEN arr[index] ELSE Undefined

\* which of open, high, low, close the server sends as null at one timestamp
NullPatterns == {{}, {"open"}, {"high"}, {"low"}, {"close"}}

\* a column of indicators.quote[0]: null where the pattern says so, else a number
\* (the index, so that no two candles of a response are alike)
Column(field, patterns) ==
    [i \in 1..Len(patterns) |-> IF field \in patterns[i] THEN Null ELSE Num(i)]

Sequences(S, n) == UNION {[1..k -> S] : k \in 0..n}

\* a chart result of the server; short: the close column lacks its last element
ResultOf(timestamp, patterns, short) ==
    [shape |-> "result", timestamp |-> timestamp, meta |-> "meta",
     quote |-> [open |-> Column("open", patterns), high |-> Column("high", patterns),
                low |-> Column("low", patterns),
                close |-> IF short THEN SubSeq(Column("close", patterns), 1, Len(patterns) - 1)
                          ELSE Column("close", patterns)]]

\* a response that is no chart result: the fetch rejects; the body is no JSON
\* ("Not Found"); null; {error: ...}; timestamp 0; timestamp a number; no
\* indicators; indicators.quote empty
Other(shape, timestamp) ==
    [shape |-> shape, timestamp |-> timestamp, meta |-> "meta",
     quote |-> [open |-> << >>, high |-> << >>, low |-> << >>, close |-> << >>]]

Responses ==
    {ResultOf(t, p, s) : <<t, p, s>> \in
        {x \in Sequences(1..MaxTime, MaxCandles) \X Sequences(NullPatterns, MaxCandles) \X BOOLEAN :
            Len(x[1]) = Len(x[2]) /\ (x[3] => Len(x[1]) > 0)}}
    \cup {Other(shape, << >>) :
            shape \in {"rejects", "text", "null", "error", "zero", "scalar"}}
    \cup {Other(shape, t) : shape \in {"noIndicators", "emptyQuote"}, t \in {<< >>, <<1>>}}

\* timestamps.map(...): one candle for each timestamp
formattedData(data) ==
    [index \in 1..Len(data.timestamp) |->
        [time |-> data.timestamp[index],
         open |-> At(data.quote.open, index), high |-> At(data.quote.high, index),
         low |-> At(data.quote.low, index), close |-> At(data.quote.close, index)]]

\* the filter: !== null on each of the four
NotNull(item) ==
    item.open # Null /\ item.high # Null /\ item.low # Null /\ item.close # Null

\* .sort((a, b) => a.time - b.time): stable
RECURSIVE InsertByTime(_, _)
InsertByTime(item, sorted) ==
    IF sorted = << >> THEN << item >>
    ELSE IF item.time - Head(sorted).time < 0 THEN << item >> \o sorted
    ELSE << Head(sorted) >> \o InsertByTime(item, Tail(sorted))

RECURSIVE SortByTime(_)
SortByTime(items) ==
    IF items = << >> THEN << >>
    ELSE InsertByTime(items[Len(items)], SortByTime(SubSeq(items, 1, Len(items) - 1)))

\* as uniqueData, keeping every candle
uniqueDataKeepAll(formatted) == formatted

\* the loop: a candle is kept if it is the first or its time is not the time of
\* the candle before it
RECURSIVE uniqueData(_)
uniqueData(formatted) ==
    IF formatted = << >> THEN << >>
    ELSE LET i == Len(formatted)
             front == uniqueData(SubSeq(formatted, 1, i - 1))
         IN IF i = 1 \/ formatted[i].time # formatted[i - 1].time
              THEN Append(front, formatted[i])
              ELSE front

Empty == [chartData |-> << >>, meta |-> "null", thrown |-> FALSE]

Thrown == [chartData |-> << >>, meta |-> "null", thrown |-> TRUE]

\* the try block: what it returns, or that it throws
TryBlock(data) ==
    IF data.shape \in {"rejects", "text"} THEN Thrown
    ELSE IF data.shape \in {"null", "error", "zero"} THEN Empty
    ELSE IF data.shape \in {"scalar", "noIndicators"} THEN Thrown
    ELSE IF data.shape = "emptyQuote"
      THEN IF data.timestamp = << >> THEN [Empty EXCEPT !.meta = data.meta] ELSE Thrown
    ELSE [chartData |-> uniqueData(SortByTime(SelectSeq(formattedData(data), NotNull))),
          meta |-> data.meta, thrown |-> FALSE]

\* no call of getChartData, for the other specifications
ChartIdle ==
    /\ response = Other("null", << >>)
    /\ chart = Empty
    /\ called = TRUE

\* ------------------------------------------------------------------- Init
InitDB ==
    /\ users = {}
    /\ wallets = << >>
    /\ pages = << >>
    /\ purchases = EmptyBag
    /\ txs = EmptyBag
    /\ images = EmptyBag
    /\ slots = [s \in Slots |-> Idle]
    /\ resp = NoResp

Guarded == {"me", "upload", "createPage", "mine", "getPage", "putPage", "publish", "purchase"}

\* Spec observes the purchases
Init == InitDB /\ SongIdle /\ UndoIdle /\ ChartIdle /\ watch = [kinds |-> {"purchase"}, users |-> {TRUE, FALSE}]

\* SpecAccess observes the three author-only routes
InitAccess ==
    /\ InitDB /\ SongIdle /\ UndoIdle /\ ChartIdle
    /\ watch = [kinds |-> {"getPage", "putPage", "publish"}, users |-> {TRUE, FALSE}]

\* SpecAuth observes every route behind requireUser, for the requests whose token
\* is no user's id
InitAuth == InitDB /\ SongIdle /\ UndoIdle /\ ChartIdle /\ watch = [kinds |-> Guarded, users |-> {FALSE}]

\* SpecPublic observes the public routes and the purchases
InitPublic ==
    /\ InitDB /\ SongIdle /\ UndoIdle /\ ChartIdle
    /\ watch = [kinds |-> {"publicList", "publicBySlug", "purchase"}, users |-> {TRUE, FALSE}]

\* SpecUsers observes the creation of users
InitUsers == InitDB /\ SongIdle /\ UndoIdle /\ ChartIdle /\ watch = [kinds |-> {"createUser"}, users |-> {TRUE, FALSE}]

\* as GrantRows, with no coin_transactions row in the batch
GrantRowsNone(user_id) == EmptyBag

\* the coin_transactions row of the batch of ensureUser
GrantRows(user_id) ==
    SetToBag({[type |-> "initial_grant", from |-> 0, to |-> user_id,
               amount |-> InitialGrant, page |-> 0]})

\* POST /api/users: ensureUser, one batch
ensureUser ==
    /\ Cardinality(users) < MaxUsers
    /\ LET user_id == Cardinality(users) + 1 IN
        /\ users' = users \cup {user_id}
        /\ wallets' = [u \in DOMAIN wallets \cup {user_id} |->
                          IF u = user_id THEN InitialGrant ELSE wallets[u]]
        /\ txs' = txs (+) GrantRows(user_id)
        /\ json(Req("createUser", user_id, 0), "token", {})
    /\ UNCHANGED <<pages, purchases, images, slots, watch, songvars, undovars, chartvars>>

\* GET /api/me
handleMe(tok) ==
    /\ IF ~requireUser(tok) THEN err(Req("me", tok, 0), "login", 401)
       ELSE json(Req("me", tok, 0), "me", {})
    /\ UNCHANGED <<dbvars, slots, watch, songvars, undovars, chartvars>>

\* POST /api/upload: requireUser, the checks on the form, then one INSERT
handleUpload(tok, form) ==
    /\ LET r == Req("upload", tok, 0) IN
       IF ~requireUser(tok) THEN err(r, "login", 401) /\ UNCHANGED images
       ELSE IF form = "json" THEN err(r, "multipart", 400) /\ UNCHANGED images
       ELSE IF form = "nofile" THEN err(r, "file", 400) /\ UNCHANGED images
       ELSE IF form = "text" THEN err(r, "mime", 400) /\ UNCHANGED images
       ELSE IF form = "big" THEN err(r, "size", 400) /\ UNCHANGED images
       ELSE /\ BagCardinality(images) < MaxImages
            /\ images' = images (+) SetToBag({tok})
            /\ json(r, "url", {})
    /\ UNCHANGED <<users, wallets, pages, purchases, txs, slots, watch, songvars, undovars, chartvars>>

\* POST /api/pages: requireUser, then INSERT INTO pages (status 'draft')
handleCreatePage(tok, body) ==
    /\ LET r == Req("createPage", tok, 0) IN
       IF ~requireUser(tok) THEN err(r, "login", 401) /\ UNCHANGED pages
       ELSE IF ~body.json THEN err(r, "body", 400) /\ UNCHANGED pages
       ELSE IF body.slug = "" THEN err(r, "slug", 400) /\ UNCHANGED pages
       ELSE IF SlugTaken(body.slug, 0) THEN err(r, "unique", 409) /\ UNCHANGED pages
       ELSE /\ Len(pages) < MaxPages
            /\ pages' = Append(pages, [author |-> tok, title |-> TitleOf(body.title),
                                       slug |-> body.slug, content |-> body.content,
                                       price |-> PriceOf(body.price_coins),
                                       status |-> "draft"])
            /\ json(Req("createPage", tok, Len(pages) + 1), "page", {Len(pages) + 1})
    /\ UNCHANGED <<users, wallets, purchases, txs, images, slots, watch, songvars, undovars, chartvars>>

\* GET /api/pages/mine
handleGetMine(tok) ==
    /\ IF ~requireUser(tok) THEN err(Req("mine", tok, 0), "login", 401)
       ELSE json(Req("mine", tok, 0), "pages", {p \in 1..Len(pages) : pages[p].author = tok})
    /\ UNCHANGED <<dbvars, slots, watch, songvars, undovars, chartvars>>

\* an author check that lets everyone through
NotAuthorNever(page, user) == FALSE

\* page.author_id !== auth.user.user_id
NotAuthor(page, user) == page.author # user

\* GET /api/pages/:id
handleGetPage(tok, id) ==
    /\ LET r == Req("getPage", tok, id) IN
       IF ~requireUser(tok) THEN err(r, "login", 401)
       ELSE IF ~PageExists(id) THEN err(r, "nopage", 404)
       ELSE IF NotAuthor(pages[id], tok) THEN err(r, "forbidden", 403)
       ELSE json(r, "page", {id})
    /\ UNCHANGED <<dbvars, slots, watch, songvars, undovars, chartvars>>

\* PUT /api/pages/:id: requireUser, SELECT the page, the author check
handleUpdatePageSelect(s, tok, id) ==
    /\ FreeSlot(s)
    /\ LET r == Req("putPage", tok, id) IN
       IF ~requireUser(tok) THEN err(r, "login", 401) /\ UNCHANGED slots
       ELSE IF ~PageExists(id) THEN err(r, "nopage", 404) /\ UNCHANGED slots
       ELSE IF NotAuthor(pages[id], tok) THEN err(r, "forbidden", 403) /\ UNCHANGED slots
       ELSE /\ slots' = [slots EXCEPT ![s] = [Idle EXCEPT !.kind = "putPage", !.tok = tok,
                                  !.page = id, !.pc = "page", !.slug = pages[id].slug]]
            /\ UNCHANGED resp
    /\ UNCHANGED <<dbvars, watch, songvars, undovars, chartvars>>

\* PUT /api/pages/:id: the body, then UPDATE pages SET ... WHERE id=?
handleUpdatePage(s, body) ==
    /\ slots[s].pc = "page" /\ slots[s].kind = "putPage"
    /\ LET id == slots[s].page
           slug == IF body.slug = "" THEN slots[s].slug ELSE body.slug IN
       IF ~body.json THEN err(ReqOf(s), "body", 400) /\ UNCHANGED pages
       ELSE IF SlugTaken(slug, id) THEN err(ReqOf(s), "unique", 409) /\ UNCHANGED pages
       ELSE /\ pages' = [pages EXCEPT ![id] = [@ EXCEPT !.title = TitleOf(body.title),
                                                        !.slug = slug,
                                                        !.content = body.content,
                                                        !.price = PriceOf(body.price_coins)]]
            /\ json(ReqOf(s), "page", {id})
    /\ slots' = [slots EXCEPT ![s] = Idle]
    /\ UNCHANGED <<users, wallets, purchases, txs, images, watch, songvars, undovars, chartvars>>

\* POST /api/pages/:id/publish: requireUser, SELECT, the author check, then
\* UPDATE pages SET status='published'
handlePublish(tok, id) ==
    /\ LET r == Req("publish", tok, id) IN
       IF ~requireUser(tok) THEN err(r, "login", 401) /\ UNCHANGED pages
       ELSE IF ~PageExists(id) THEN err(r, "nopage", 404) /\ UNCHANGED pages
       ELSE IF NotAuthor(pages[id], tok) THEN err(r, "forbidden", 403) /\ UNCHANGED pages
       ELSE /\ pages' = [pages EXCEPT ![id] = [@ EXCEPT !.status = "published"]]
            /\ json(r, "page", {id})
    /\ UNCHANGED <<users, wallets, purchases, txs, images, slots, watch, songvars, undovars, chartvars>>

\* GET /api/pages/public: WHERE p.status='published'
handleGetPublicList ==
    /\ json(Req("publicList", 0, 0), "pages", Published)
    /\ UNCHANGED <<dbvars, slots, watch, songvars, undovars, chartvars>>

\* GET /api/p/:slug: WHERE p.slug=? AND p.status='published', then the viewer
handlePublicBySlug(slug, tok) ==
    /\ LET found == {p \in Published : pages[p].slug = slug}
           r == [Req("publicBySlug", tok, 0) EXCEPT !.slug = slug] IN
       IF found = {} THEN err(r, "nopublic", 404)
       ELSE LET p == CHOOSE q \in found : TRUE IN
            json([r EXCEPT !.page = p],
                 IF tok \in users /\ HasPurchase(tok, p) THEN "purchased" ELSE "page", {p})
    /\ UNCHANGED <<dbvars, slots, watch, songvars, undovars, chartvars>>

\* a purchase that lets the author buy
OwnWorkNever(page, user) == FALSE

\* page.author_id === auth.user.user_id
OwnWork(page, user) == page.author = user

\* POST /api/purchase: requireUser, body.page_id, SELECT the published page, the
\* price and the author checks
handlePurchaseSelect(s, tok, id) ==
    /\ FreeSlot(s)
    /\ LET r == Req("purchase", tok, id) IN
       IF ~requireUser(tok) THEN err(r, "login", 401) /\ UNCHANGED slots
       ELSE IF id = 0 THEN err(r, "page_id", 400) /\ UNCHANGED slots
       ELSE IF id \notin Published THEN err(r, "nopage", 404) /\ UNCHANGED slots
       ELSE IF PriceOf(pages[id].price) = 0 THEN json(r, "free", {}) /\ UNCHANGED slots
       ELSE IF OwnWork(pages[id], tok) THEN err(r, "own", 400) /\ UNCHANGED slots
       ELSE /\ slots' = [slots EXCEPT ![s] = [Idle EXCEPT !.kind = "purchase", !.tok = tok,
                              !.page = id, !.pc = "page", !.price = PriceOf(pages[id].price)]]
            /\ UNCHANGED resp
    /\ UNCHANGED <<dbvars, watch, songvars, undovars, chartvars>>

\* purchase: SELECT 1 FROM purchases WHERE user_id=? AND page_id=?
handlePurchaseAlready(s) ==
    /\ slots[s].pc = "page" /\ slots[s].kind = "purchase"
    /\ IF HasPurchase(slots[s].tok, slots[s].page)
         THEN json(ReqOf(s), "already", {}) /\ slots' = [slots EXCEPT ![s] = Idle]
         ELSE UNCHANGED resp /\ slots' = [slots EXCEPT ![s].pc = "fresh"]
    /\ UNCHANGED <<dbvars, watch, songvars, undovars, chartvars>>

\* purchase: INSERT OR IGNORE INTO wallets (user_id, balance) VALUES (author, 0)
handlePurchaseWallet(s) ==
    /\ slots[s].pc = "fresh" /\ slots[s].kind = "purchase"
    /\ LET author == pages[slots[s].page].author IN
       wallets' = [u \in DOMAIN wallets \cup {author} |->
                      IF u \in DOMAIN wallets THEN wallets[u] ELSE 0]
    /\ slots' = [slots EXCEPT ![s].pc = "wallet"]
    /\ UNCHANGED <<users, pages, purchases, txs, images, resp, watch, songvars, undovars, chartvars>>

\* a debit that forgets the balance test
DebitAppliesAnyBalance(w, user, price) == user \in DOMAIN w

\* the WHERE clause of the debit: user_id = ? AND balance >= ?
DebitApplies(w, user, price) == user \in DOMAIN w /\ w[user] >= price

\* purchase: UPDATE wallets SET balance = balance - ? WHERE user_id=? AND balance >= ?
\* and the test of debit.meta.changes
handlePurchaseDebit(s) ==
    /\ slots[s].pc = "wallet" /\ slots[s].kind = "purchase"
    /\ IF DebitApplies(wallets, slots[s].tok, slots[s].price)
         THEN /\ wallets' = [wallets EXCEPT ![slots[s].tok] = @ - slots[s].price]
              /\ slots' = [slots EXCEPT ![s].pc = "debited"]
              /\ UNCHANGED resp
         ELSE /\ UNCHANGED wallets
              /\ slots' = [slots EXCEPT ![s] = Idle]
              /\ err(ReqOf(s), "coins", 400)
    /\ UNCHANGED <<users, pages, purchases, txs, images, watch, songvars, undovars, chartvars>>

\* purchase: the batch that credits the author and records the purchase
handlePurchase(s) ==
    /\ slots[s].pc = "debited" /\ slots[s].kind = "purchase"
    /\ LET user == slots[s].tok
           id == slots[s].page
           author == pages[id].author
           price == slots[s].price IN
        /\ wallets' = [wallets EXCEPT ![author] = @ + price]
        /\ purchases' = purchases (+) SetToBag({[user |-> user, page |-> id, price |-> price]})
        /\ txs' = txs (+) SetToBag({[type |-> "purchase", from |-> user, to |-> author,
                                     amount |-> price, page |-> id]})
    /\ json(ReqOf(s), "ok", {})
    /\ slots' = [slots EXCEPT ![s] = Idle]
    /\ UNCHANGED <<users, pages, images, watch, songvars, undovars, chartvars>>

\* the batch is one transaction: if the purchases table refuses a second row for
\* (user_id, page_id), nothing of the batch is applied and the request fails
handlePurchaseRejected(s) ==
    /\ slots[s].pc = "debited" /\ slots[s].kind = "purchase"
    /\ HasPurchase(slots[s].tok, slots[s].page)
    /\ err(ReqOf(s), "exception", 500)
    /\ slots' = [slots EXCEPT ![s] = Idle]
    /\ UNCHANGED <<dbvars, watch, songvars, undovars, chartvars>>

Next ==
    \/ ensureUser
    \/ \E tok \in Tokens : handleMe(tok)
    \/ \E tok \in Tokens, form \in Forms : handleUpload(tok, form)
    \/ \E tok \in Tokens, body \in Bodies : handleCreatePage(tok, body)
    \/ \E tok \in Tokens : handleGetMine(tok)
    \/ \E tok \in Tokens, id \in PageIds \ {0} : handleGetPage(tok, id)
    \/ \E s \in Slots, tok \in Tokens, id \in PageIds \ {0} : handleUpdatePageSelect(s, tok, id)
    \/ \E s \in Slots, body \in Bodies : handleUpdatePage(s, body)
    \/ \E tok \in Tokens, id \in PageIds \ {0} : handlePublish(tok, id)
    \/ handleGetPublicList
    \/ \E sl \in Slugs, tok \in Tokens : handlePublicBySlug(sl, tok)
    \/ \E s \in Slots, tok \in Tokens, id \in PageIds : handlePurchaseSelect(s, tok, id)
    \/ \E s \in Slots : handlePurchaseAlready(s)
    \/ \E s \in Slots : handlePurchaseWallet(s)
    \/ \E s \in Slots : handlePurchaseDebit(s)
    \/ \E s \in Slots : handlePurchase(s)
    \/ \E s \in Slots : handlePurchaseRejected(s)

Spec == Init /\ [][Next]_vars

SpecAccess == InitAccess /\ [][Next]_vars

SpecAuth == InitAuth /\ [][Next]_vars

SpecPublic == InitPublic /\ [][Next]_vars

SpecUsers == InitUsers /\ [][Next]_vars

\* ------------------------------------------------------ the song generator
\* two calls with the same parameters, each seeding its RNG; the walk starts at
\* the centre of the range
InitSong ==
    /\ params \in ParamSets
    /\ gen = [r \in Runs |-> [IdleGen EXCEPT !.pc = "compose",
                                             !.prev = (RangeLow + RangeHigh) \div 2]]
    /\ rng = [r \in Runs |-> SeedState(params.seed)]
    /\ InitDB /\ UndoIdle /\ ChartIdle
    /\ watch = [kinds |-> {}, users |-> {}]

\* 4.4, 4.5, 4.7: one token of the lyrics: its rhythm step, its note (after its
\* ornament), then the gap after a line or a section and the section's record
GenToken(r) ==
    /\ gen[r].pc = "compose"
    /\ LET g == gen[r]
           c == params.complexity
           blocks == Tokenize(params.lyrics)
           label == params.structure[g.sec]
           block == blocks[BlockFor(label, blocks)]
           s1 == RngStep(rng[RngOwner(r)])
           s2 == RngStep(s1)
           s3 == RngStep(s2)
           s4 == RngStep(s3)
           rest == IsRest(s1, c)
           dur == DurationOf(s2, c)
           pitch == Fold(nearestMember(g.prev + IntervalOf(s4, c)))
           added == IF rest THEN << >>
                    ELSE NotesOf(g.cursor, dur, pitch, g.tok, HasOrnament(s3, c, dur))
           endLine == g.tok = TokensOf(block[g.line])
           endSec == endLine /\ g.line = Len(block)
           endSong == endSec /\ g.sec = Len(params.structure)
           after == g.cursor + dur
           cursor == IF endSong THEN after
                     ELSE IF endSec THEN after + SectionGap
                     ELSE IF endLine THEN after + BreathGap
                     ELSE after
       IN /\ rng' = [rng EXCEPT ![RngOwner(r)] = s4]
          /\ gen' = [gen EXCEPT ![r] =
                [g EXCEPT !.notes = g.notes \o added,
                          !.prev = IF rest THEN g.prev ELSE pitch,
                          !.cursor = cursor,
                          !.tok = IF endLine THEN 1 ELSE g.tok + 1,
                          !.line = IF endSec THEN 1 ELSE IF endLine THEN g.line + 1 ELSE g.line,
                          !.sec = IF endSec /\ ~endSong THEN g.sec + 1 ELSE g.sec,
                          !.secStart = IF endSec THEN cursor ELSE g.secStart,
                          !.sections = IF endSec
                              THEN Append(g.sections,
                                          [name |-> label, startBar |-> StartBarOf(g.sections),
                                           barCount |-> BarsOf(after - g.secStart,
                                                               params.beatsPerBar)])
                              ELSE g.sections,
                          !.pc = IF endSong THEN "encode" ELSE "compose"]]
    /\ UNCHANGED <<params, apivars, undovars, chartvars>>

\* 4.8: the finished timeline is serialized
Encode(r) ==
    /\ gen[r].pc = "encode"
    /\ LET events == WithDeltas(SortEvents(EventsOf(gen[r].notes))) IN
       gen' = [gen EXCEPT ![r] = [@ EXCEPT !.events = events,
                                           !.bytes = FileBytes(events, params.beatsPerBar),
                                           !.pc = "done"]]
    /\ UNCHANGED <<params, rng, apivars, undovars, chartvars>>

NextSong == \E r \in Runs : GenToken(r) \/ Encode(r)

SpecSong == InitSong /\ [][NextSong]_vars

\* ----------------------------------------------------------- the undo stack
InitUndo == UndoIdle /\ ChartIdle /\ InitDB /\ SongIdle /\ watch = [kinds |-> {}, users |-> {}]

\* onAuthStateChanged: setUser(u || null); signedIn stands for user # null
onAuthStateChanged(u) ==
    /\ signedIn # u
    /\ signedIn' = u
    /\ UNCHANGED <<undoStack, serial, undone, toast, apivars, songvars, chartvars>>

\* a handler that calls pushUndo when push holds, then sets its toast
Handled(push, title) ==
    /\ signedIn
    /\ IF push
         THEN /\ serial < MaxPushes
              /\ serial' = serial + 1
              /\ undoStack' = pushUndo(undoStack, serial + 1)
         ELSE UNCHANGED <<undoStack, serial>>
    /\ toast' = title
    /\ UNCHANGED <<undone, signedIn, apivars, songvars, chartvars>>

\* upsertEvent(e): a new event is undone by deleteDoc, a changed one by updateDoc
\* with the event as it was, if it is in events
upsertEvent(hasId, prev) ==
    IF ~hasId THEN Handled(TRUE, "eventAdded") ELSE Handled(prev, "eventUpdated")

\* deleteEventById(id)
deleteEventById(prev) == Handled(prev, "eventDeleted")

\* upsertTask(t)
upsertTask(hasId, prev) ==
    IF ~hasId THEN Handled(TRUE, "taskAdded") ELSE Handled(prev, "taskUpdated")

\* deleteTaskById(id)
deleteTaskById(prev) == Handled(prev, "taskDeleted")

\* addNote(note)
addNote == Handled(TRUE, "noteAdded")

\* undo: pop the last entry and run it, or say that there is none
undo ==
    /\ IF undoStack = << >>
         THEN /\ toast' = "nothingToUndo"
              /\ UNCHANGED <<undoStack, undone>>
         ELSE /\ undone < MaxUndos
              /\ undoStack' = SubSeq(undoStack, 1, Len(undoStack) - 1)
              /\ undone' = undone + 1
              /\ toast' = "undone"
    /\ UNCHANGED <<serial, signedIn, apivars, songvars, chartvars>>

NextUndo ==
    \/ \E u \in BOOLEAN : onAuthStateChanged(u)
    \/ \E hasId \in BOOLEAN, prev \in BOOLEAN : upsertEvent(hasId, prev)
    \/ \E prev \in BOOLEAN : deleteEventById(prev)
    \/ \E hasId \in BOOLEAN, prev \in BOOLEAN : upsertTask(hasId, prev)
    \/ \E prev \in BOOLEAN : deleteTaskById(prev)
    \/ addNote
    \/ undo

SpecUndo == InitUndo /\ [][NextUndo]_vars

\* ----------------------------------------------------------- getChartData
InitChart ==
    /\ response \in Responses
    /\ chart = Empty
    /\ called = FALSE
    /\ InitDB /\ SongIdle /\ UndoIdle
    /\ watch = [kinds |-> {}, users |-> {}]

\* getChartData(symbol, interval, range): the try block, and the catch
getChartData ==
    /\ ~called
    /\ called' = TRUE
    /\ chart' = IF TryBlock(response).thrown THEN Empty ELSE TryBlock(response)
    /\ UNCHANGED <<response, apivars, songvars, undovars>>

NextChart == getChartData

SpecChart == InitChart /\ [][NextChart]_vars

\* ------------------------------------------------------------------ claims
\* what the formulas below read off a step, without the handlers' own operators

\* this step recorded a response
Emitted == resp' # resp /\ resp'.kind # "none"

\* the request in slot s takes a step
Steps(s) == slots[s].pc # "idle" /\ slots'[s] # slots[s]

IsUser(tok) == tok \in users
RowExists(u, p) == \E row \in BagToSet(purchases) : row.user = u /\ row.page = p
IsPublished(p) == p \in 1..Len(pages) /\ pages[p].status = "published"
MoneyUnchanged == UNCHANGED <<wallets, purchases, txs>>

\* C5: no wallet balance is ever negative; a balance goes down only in the debit
\* of a purchase whose buyer holds at least the price at that moment, by exactly
\* the price; and a debit that does not apply answers 400 (coins), ends the
\* request, and changes no wallet, purchases or coin_transactions row.
C5_WalletNeverNegative ==
    [][ /\ \A u \in DOMAIN wallets' : wallets'[u] >= 0
        /\ \A u \in DOMAIN wallets : wallets'[u] < wallets[u] =>
              \E s \in Slots : /\ Steps(s) /\ slots[s].kind = "purchase"
                               /\ slots[s].pc = "wallet" /\ slots[s].tok = u
                               /\ wallets[u] >= slots[s].price
                               /\ wallets'[u] = wallets[u] - slots[s].price
        /\ \A s \in Slots :
              (/\ Steps(s) /\ slots[s].kind = "purchase" /\ slots[s].pc = "wallet"
               /\ wallets[slots[s].tok] < slots[s].price)
              => /\ Emitted /\ resp'.status = 400 /\ resp'.tag = "coins"
                 /\ resp'.tok = slots[s].tok /\ resp'.page = slots[s].page
                 /\ slots'[s] = Idle
                 /\ MoneyUnchanged ]_vars

\* C5 witness: a purchase was refused for lack of coins, by a buyer who had paid
\* for a concurrent purchase
C5_Witness ==
    /\ resp.kind = "purchase" /\ resp.status = 400 /\ resp.tag = "coins"
    /\ wallets[resp.tok] < InitialGrant
    /\ wallets[resp.tok] >= 0

\* C6: a GET, PUT or publish of an existing page by an authenticated user who is
\* not its author answers 403 and leaves every page row as it was; and a step that
\* changes an existing page row is a PUT or a publish with the author's token.
AccessKinds == {"getPage", "putPage", "publish"}

C6_AuthorOnly ==
    [][ /\ (/\ Emitted /\ resp'.kind \in AccessKinds
            /\ IsUser(resp'.tok)
            /\ resp'.page \in 1..Len(pages)
            /\ pages[resp'.page].author # resp'.tok)
           => resp'.status = 403 /\ pages' = pages
        /\ \A p \in 1..Len(pages) : pages'[p] # pages[p] =>
              /\ Emitted /\ resp'.kind \in {"putPage", "publish"}
              /\ resp'.page = p /\ resp'.tok = pages[p].author
              /\ pages'[p].author = pages[p].author ]_vars

\* C6 witness: a user who is not the author was refused
C6_Witness ==
    /\ resp.kind = "putPage" /\ resp.status = 403
    /\ resp.tok \in users
    /\ resp.page \in 1..Len(pages)
    /\ pages[resp.page].author # resp.tok

\* C7: a request to a route behind requireUser without a token, or with a token
\* that is no user's id, answers 401 and changes no table.
C7_AuthGate ==
    [][ (Emitted /\ resp'.kind \in Guarded /\ ~IsUser(resp'.tok))
        => resp'.status = 401 /\ UNCHANGED dbvars ]_vars

\* C7 witness: a token that is no user's id was refused while users exist
C7_Witness ==
    /\ resp.kind = "createPage" /\ resp.status = 401
    /\ resp.tok # 0 /\ resp.tok \notin users
    /\ users # {}

\* C8 as stated: an unpublished page is in no answer of the public list or the
\* slug route (404 for its slug), and a purchase of it answers 404 and changes no
\* wallet.
C8_Original ==
    [][ Emitted =>
        /\ resp'.kind \in {"publicList", "publicBySlug"} =>
              \A p \in resp'.rows : IsPublished(p)
        /\ (/\ resp'.kind = "publicBySlug"
            /\ \E p \in 1..Len(pages) : pages[p].slug = resp'.slug /\ ~IsPublished(p))
           => resp'.status = 404
        /\ (/\ resp'.kind = "purchase"
            /\ resp'.page \in 1..Len(pages) /\ ~IsPublished(resp'.page))
           => resp'.status = 404 /\ wallets' = wallets ]_vars

\* C8 amended: the same, the purchase being one by an authenticated user.
C8_PublishedOnly ==
    [][ Emitted =>
        /\ resp'.kind \in {"publicList", "publicBySlug"} =>
              \A p \in resp'.rows : IsPublished(p)
        /\ (/\ resp'.kind = "publicBySlug"
            /\ \E p \in 1..Len(pages) : pages[p].slug = resp'.slug /\ ~IsPublished(p))
           => resp'.status = 404
        /\ (/\ resp'.kind = "purchase" /\ IsUser(resp'.tok)
            /\ resp'.page \in 1..Len(pages) /\ ~IsPublished(resp'.page))
           => resp'.status = 404 /\ wallets' = wallets ]_vars

\* C8 witness: a user's purchase of a draft was answered 404
C8_Witness ==
    /\ resp.kind = "purchase" /\ resp.status = 404
    /\ resp.tok \in users
    /\ resp.page \in 1..Len(pages)
    /\ pages[resp.page].status = "draft"

\* a purchase request answered in its first step (it holds no slot)
AnsweredAtOnce == Emitted /\ resp'.kind = "purchase" /\ slots' = slots

\* C9 as stated: once a purchases row exists for (user, page), a purchase by that
\* user for that page answers {ok, already} and changes no wallet, purchases or
\* coin_transactions row.
C9_Original ==
    [][ /\ (AnsweredAtOnce /\ RowExists(resp'.tok, resp'.page))
           => resp'.status = 200 /\ resp'.tag = "already" /\ MoneyUnchanged
        /\ \A s \in Slots :
              (/\ Steps(s) /\ slots[s].kind = "purchase" /\ slots[s].pc = "page"
               /\ RowExists(slots[s].tok, slots[s].page))
              => /\ Emitted /\ resp'.status = 200 /\ resp'.tag = "already"
                 /\ resp'.tok = slots[s].tok /\ resp'.page = slots[s].page
                 /\ slots'[s] = Idle
                 /\ MoneyUnchanged ]_vars

\* C9 amended: ... answers {ok, already}, or {ok, free} when the page's price is 0
\* by then, and changes no wallet, purchases or coin_transactions row.
C9_RepeatPurchase ==
    [][ /\ (AnsweredAtOnce /\ RowExists(resp'.tok, resp'.page))
           => /\ resp'.status = 200 /\ resp'.tag = "free"
              /\ pages[resp'.page].price = 0
              /\ MoneyUnchanged
        /\ \A s \in Slots :
              (/\ Steps(s) /\ slots[s].kind = "purchase" /\ slots[s].pc = "page"
               /\ RowExists(slots[s].tok, slots[s].page))
              => /\ Emitted /\ resp'.status = 200 /\ resp'.tag = "already"
                 /\ resp'.tok = slots[s].tok /\ resp'.page = slots[s].page
                 /\ slots'[s] = Idle
                 /\ MoneyUnchanged ]_vars

\* C9 witness: a repeat purchase was answered already
C9_Witness ==
    /\ resp.kind = "purchase" /\ resp.status = 200 /\ resp.tag = "already"
    /\ RowExists(resp.tok, resp.page)

\* C10: a purchase of a published page with price > 0 by its author answers 400
\* and changes no wallet, purchases or coin_transactions row; no request of an
\* author for their own page gets past that check, and no purchases row has the
\* page's author as its user.
C10_NoSelfPurchase ==
    [][ /\ (/\ AnsweredAtOnce /\ IsUser(resp'.tok)
            /\ IsPublished(resp'.page)
            /\ pages[resp'.page].price > 0
            /\ pages[resp'.page].author = resp'.tok)
           => resp'.status = 400 /\ resp'.tag = "own" /\ MoneyUnchanged
        /\ \A s \in Slots : slots'[s].kind = "purchase" =>
              pages'[slots'[s].page].author # slots'[s].tok
        /\ \A row \in BagToSet(purchases') : pages'[row.page].author # row.user ]_vars

\* C10 witness: the author's purchase of their own paid, published page was refused
C10_Witness ==
    /\ resp.kind = "purchase" /\ resp.status = 400 /\ resp.tag = "own"
    /\ resp.page \in 1..Len(pages)
    /\ pages[resp.page].author = resp.tok
    /\ pages[resp.page].price > 0
    /\ pages[resp.page].status = "published"

\* the initial_grant rows of coin_transactions
Grants(t) == [row \in {x \in BagToSet(t) : x.type = "initial_grant"} |-> t[row]]

\* C11: a step that adds a users row adds exactly one, with a new id, together
\* with a wallets row of balance 1000 for it and one coin_transactions row of type
\* initial_grant, amount 1000, to it and from nobody, changes no other wallet and
\* answers 200 with the new id as token; and no step adds a wallets row or an
\* initial_grant row without adding the users row (all or none)
C11_InitialGrant ==
    [][/\ (users' # users) =>
            \E u \in users' \ users :
                /\ users' = users \cup {u}
                /\ DOMAIN wallets' = DOMAIN wallets \cup {u}
                /\ u \notin DOMAIN wallets
                /\ wallets'[u] = 1000
                /\ \A v \in DOMAIN wallets : wallets'[v] = wallets[v]
                /\ txs' = txs (+) SetToBag({[type |-> "initial_grant", from |-> 0, to |-> u,
                                             amount |-> 1000, page |-> 0]})
                /\ Emitted
                /\ resp'.kind = "createUser" /\ resp'.status = 200 /\ resp'.tok = u
       /\ (DOMAIN wallets' # DOMAIN wallets \/ Grants(txs') # Grants(txs))
            => users' # users]_vars

\* a second user has just been created, after the first one made a page
C11_Witness ==
    /\ resp.kind = "createUser" /\ resp.tok = 2
    /\ users = {1, 2}
    /\ wallets[2] = 1000
    /\ Len(pages) = 1
    /\ \E row \in BagToSet(txs) : row.type = "initial_grant" /\ row.to = 2 /\ txs[row] = 1

\* ----------------------------------------------- claims on the song generator
Composed(r) == gen[r].pc \in {"encode", "done"}

Encoded(r) == gen[r].pc = "done"

\* the events read back from the bytes of a track: a delta of 7-bit groups, the
\* last one below 128, then a status byte and two data bytes
RECURSIVE ReadEvents(_, _, _)
ReadEvents(bytes, delta, tick) ==
    IF bytes = << >> THEN << >>
    ELSE IF Head(bytes) >= 128
      THEN ReadEvents(Tail(bytes), delta * 128 + (Head(bytes) - 128), tick)
      ELSE LET d == delta * 128 + Head(bytes) IN
           << [tick |-> tick + d, type |-> IF bytes[2] = 144 THEN "on" ELSE "off",
               pitch |-> bytes[3], delta |-> d] >>
           \o ReadEvents(SubSeq(bytes, 5, Len(bytes)), 0, tick + d)

\* the note events of an encoded file: what lies between the 40 bytes up to the
\* program select and the 4 bytes of the end of track
Written(r) == ReadEvents(SubSeq(gen[r].bytes, 41, Len(gen[r].bytes) - 4), 0, 0)

C2_MonotonicTimeline ==
    \A r \in Runs : \A i \in 1..(Len(gen[r].notes) - 1) :
        gen[r].notes[i].start <= gen[r].notes[i + 1].start

\* a finished timeline of several lines with an ornament before its host note
C2_Witness ==
    \E r \in Runs :
        /\ Composed(r)
        /\ Len(gen[r].notes) >= 4
        /\ \E i \in 1..(Len(gen[r].notes) - 1) :
              /\ gen[r].notes[i].orn
              /\ gen[r].notes[i].start < gen[r].notes[i + 1].start

C4_OffBeforeOn ==
    \A r \in Runs : Encoded(r) =>
        LET e == Written(r) IN
        /\ e = gen[r].events
        /\ Len(e) = 2 * Len(gen[r].notes)
        /\ \A i \in 1..Len(e) :
              /\ e[i].delta >= 0
              /\ e[i].tick = (IF i = 1 THEN 0 ELSE e[i - 1].tick) + e[i].delta
        /\ \A i \in 1..Len(e) : \A j \in 1..Len(e) :
              (e[i].tick = e[j].tick /\ e[i].type = "off" /\ e[j].type = "on") => i < j

\* an encoded file in which one note ends on the tick the next one starts at,
\* with a delta of more than one byte
C4_Witness ==
    \E r \in Runs :
        /\ Encoded(r)
        /\ \E i \in 1..(Len(Written(r)) - 1) :
              /\ Written(r)[i].type = "off"
              /\ Written(r)[i + 1].type = "on"
              /\ Written(r)[i + 1].delta = 0
        /\ \E i \in 1..Len(Written(r)) : Written(r)[i].delta >= 128

\* ------------------------------------------------- claims on the undo stack
\* the last n entries of a sequence
LastN(s, n) == IF Len(s) <= n THEN s ELSE SubSeq(s, Len(s) - n + 1, Len(s))

\* C12: the undo stack never holds more than 25 entries, and a push leaves the
\* 25 most recent of the old entries and the new one, in order: the 26th
\* discards the oldest
C12_UndoAtMost25 ==
    /\ [](Len(undoStack) <= 25)
    /\ [][(serial' # serial) =>
             /\ undoStack' = LastN(undoStack \o << serial' >>, 25)
             /\ Len(undoStack) = 25 =>
                   /\ Len(undoStack') = 25
                   /\ \A i \in 1..24 : undoStack'[i] = undoStack[i + 1]
                   /\ undoStack'[25] = serial']_vars

\* the stack is full after a push discarded the oldest entry, with an undo before
C12_Witness ==
    /\ Len(undoStack) = 25
    /\ undoStack[1] > 1
    /\ undoStack[25] = serial
    /\ undone >= 1
    /\ \E i \in 1..24 : undoStack[i + 1] > undoStack[i] + 1

\* ---------------------------------------------------- claims on getChartData
\* C13: a call of getChartData returns (it throws nothing); what it returns has
\* no candle with a null open, high, low or close and its times are strictly
\* increasing; and if the fetch fails, the body is no JSON or the response has no
\* timestamp, it returns {chartData: [], meta: null}
C13_CleanSortedUnique ==
    called =>
        /\ ~chart.thrown
        /\ \A i \in 1..Len(chart.chartData) :
              \A field \in {"open", "high", "low", "close"} :
                  chart.chartData[i][field].type # "null"
        /\ \A i \in 1..(Len(chart.chartData) - 1) :
              chart.chartData[i].time < chart.chartData[i + 1].time
        /\ response.shape \in {"rejects", "text", "null", "error", "zero"} =>
              chart.chartData = << >> /\ chart.meta = "null"

\* a call has returned two candles of a response that had three, with a null,
\* out of order and with a time twice
C13_Witness ==
    /\ called
    /\ response.shape = "result"
    /\ Len(response.timestamp) = 3
    /\ Len(chart.chartData) = 2
    /\ \E i \in 1..3 : response.quote.high[i] = Null
    /\ response.timestamp[1] > response.timestamp[3]
    /\ response.timestamp[1] = response.timestamp[2]
    /\ response.quote.open[1] # Null /\ response.quote.open[2] # Null

TypeOK ==
    /\ users \subseteq 1..MaxUsers
    /\ \A u \in users : u \in DOMAIN wallets

====
